---- MODULE Spec2Model ----
(***************************************************************************)
(* A model of FreeGamesScraper.py: the duplicate filter                    *)
(* (_remove_duplicates), the threaded orchestrator                         *)
(* (scrape_all_platforms_threaded), the Epic and Steam adapters, the two   *)
(* sinks and main.                                                         *)
(***************************************************************************)
EXTENDS Integers, Sequences, FiniteSets, TLC

(***************************************************************************)
(* Text.  A title is a sequence of one-character strings.                  *)
(***************************************************************************)
UpperCase == <<"A", "B", "C", "D", "E", "F", "G", "H", "I", "J", "K", "L", "M",
               "N", "O", "P", "Q", "R", "S", "T", "U", "V", "W", "X", "Y", "Z">>

LowerCase == <<"a", "b", "c", "d", "e", "f", "g", "h", "i", "j", "k", "l", "m",
               "n", "o", "p", "q", "r", "s", "t", "u", "v", "w", "x", "y", "z">>

Digits == {"0", "1", "2", "3", "4", "5", "6", "7", "8", "9"}

Range(s) == {s[i] : i \in DOMAIN s}

Max(a, b) == IF a >= b THEN a ELSE b

UpperLetters == Range(UpperCase)

\* str.lower() on one character
LowerChar(c) ==
    IF c \in UpperLetters
    THEN LowerCase[CHOOSE i \in DOMAIN UpperCase : UpperCase[i] = c]
    ELSE c

\* str.lower()
LowerStr(s) == [i \in DOMAIN s |-> LowerChar(s[i])]

\* the characters str.strip() removes
IsSpace(c) == c \in {" ", "\t", "\n"}

\* str.strip(): leading and trailing white space removed
Strip(s) ==
    LET keep == {i \in DOMAIN s : ~IsSpace(s[i])}
    IN  IF keep = {} THEN <<>>
        ELSE LET lo == CHOOSE i \in keep : \A j \in keep : i <= j
                 hi == CHOOSE i \in keep : \A j \in keep : j <= i
             IN  SubSeq(s, lo, hi)

WordChars == Range(UpperCase) \cup Range(LowerCase) \cup Digits \cup {"_"}

\* the characters \w matches
IsWordChar(c) == c \in WordChars

\* set(re.findall(r'\b\w+\b', s)): the set of maximal runs of word characters
Words(s) ==
    LET starts == {i \in DOMAIN s : /\ IsWordChar(s[i])
                                    /\ (i = 1 \/ ~IsWordChar(s[i - 1]))}
        EndOf(i) == CHOOSE j \in i..Len(s) :
                        /\ \A k \in i..j : IsWordChar(s[k])
                        /\ (j = Len(s) \/ ~IsWordChar(s[j + 1]))
    IN  {SubSeq(s, i, EndOf(i)) : i \in starts}

(***************************************************************************)
(* Offers.  An offer is the dict an adapter builds; the fields the model   *)
(* reads are title, platform and url.                                      *)
(***************************************************************************)
\* "Control Ultimate Edition"
T_ControlUltimate == <<"C", "o", "n", "t", "r", "o", "l", " ", "U", "l", "t", "i", "m", "a", "t", "e", " ", "E", "d", "i", "t", "i", "o", "n">>

\* "Control: Ultimate Edition"
T_ControlColonUltimate == <<"C", "o", "n", "t", "r", "o", "l", ":", " ", "U", "l", "t", "i", "m", "a", "t", "e", " ", "E", "d", "i", "t", "i", "o", "n">>

\* "Control"
T_Control == <<"C", "o", "n", "t", "r", "o", "l">>

\* " CONTROL "
T_ControlShout == <<" ", "C", "O", "N", "T", "R", "O", "L", " ">>

\* "a b c d e"
T_FiveWords == <<"a", " ", "b", " ", "c", " ", "d", " ", "e">>

\* "a b c d f"
T_FourOfFive == <<"a", " ", "b", " ", "c", " ", "d", " ", "f">>

\* "a b c d e g"
T_FiveOfSix == <<"a", " ", "b", " ", "c", " ", "d", " ", "e", " ", "g">>

\* "!!!!"
T_Bangs == <<"!", "!", "!", "!">>

\* "????"
T_Marks == <<"?", "?", "?", "?">>

Offer(title, platform, url) == [title |-> title, platform |-> platform, url |-> url]

\* The offer dicts of a run.  Lists hold references to them: g1, g2, ...
Heap ==
    [g1  |-> Offer(T_ControlUltimate, "Epic Games Store", "u1"),
     g2  |-> Offer(T_ControlUltimate, "Steam", "u2"),
     g3  |-> Offer(T_ControlColonUltimate, "Steam", "u3"),
     g4  |-> Offer(T_Control, "Ubisoft Connect", "u4"),
     g5  |-> Offer(T_ControlShout, "itch.io", "u5"),
     g6  |-> Offer(T_FiveWords, "Epic Games Store", "u6"),
     g7  |-> Offer(T_FourOfFive, "Amazon Prime Gaming", "u7"),
     g8  |-> Offer(T_FiveOfSix, "itch.io", "u8"),
     g9  |-> Offer(T_Bangs, "GOG", "u9"),
     g10 |-> Offer(T_Marks, "itch.io", "u10")]

\* the offers the inputs of the duplicate filter are drawn from
OfferPool == DOMAIN Heap

\* game['title'], game['url']
Title(game) == Heap[game].title
Url(game) == Heap[game].url

(***************************************************************************)
(* _remove_duplicates.  The test of line 385 is                            *)
(*     len(A & B) / max(len(A), len(B)) > 0.8                              *)
(* For integers n, m > 0 the float quotient n/m exceeds the float 0.8      *)
(* exactly when 5n > 4m (4/5 is the float 0.8 itself, and no other         *)
(* quotient of small integers rounds to it).  With m = 0 the division      *)
(* raises ZeroDivisionError.                                               *)
(***************************************************************************)
ThresholdNum == 4
ThresholdDen == 5

\* max(len(title_words), len(seen_words)) = 0: the division of line 385 raises
DivisionRaises(title_words, seen_words) ==
    Max(Cardinality(title_words), Cardinality(seen_words)) = 0

\* len(title_words & seen_words) / max(...) > 0.8, the divisor being nonzero
ExceedsThreshold(title_words, seen_words) ==
    ThresholdDen * Cardinality(title_words \cap seen_words)
        > ThresholdNum * Max(Cardinality(title_words), Cardinality(seen_words))

\* the mutant of Accept: the accepted offer is put in front
Accept_InFront(unique, game) == <<game>> \o unique

\* unique_games.append(game)
Accept(unique, game) == Append(unique, game)

\* The body of the loop of lines 376-391 for one game, on the state
\* st = [unique_games, seen_titles, raised].  seen_titles is a Python set and
\* is visited in no fixed order, until a duplicate is found (break) or the
\* division raises.  The outcome does not depend on the order: a title
\* without words has overlap 0 with every title that has words, so it visits
\* every seen title and raises exactly when one of them has no words; a title
\* with words never divides by zero.
LoopBody(st, game) ==
    LET title_lower == Strip(LowerStr(Title(game)))
        title_words == Words(title_lower)
        raises == \E seen_title \in st.seen_titles :
                      DivisionRaises(title_words, Words(seen_title))
        is_duplicate == \E seen_title \in st.seen_titles :
                      /\ ~DivisionRaises(title_words, Words(seen_title))
                      /\ ExceedsThreshold(title_words, Words(seen_title))
    IN  IF st.raised THEN st
        ELSE IF raises THEN [st EXCEPT !.raised = TRUE]
        ELSE IF is_duplicate THEN st
        ELSE [unique_games |-> Accept(st.unique_games, game),
              seen_titles  |-> st.seen_titles \cup {title_lower},
              raised       |-> FALSE]

\* unique_games = [], seen_titles = set()   (lines 373-374)
DedupeStart == [unique_games |-> <<>>, seen_titles |-> {}, raised |-> FALSE]

RECURSIVE DedupeFrom(_, _)
DedupeFrom(st, games) ==
    IF games = <<>> THEN st
    ELSE DedupeFrom(LoopBody(st, Head(games)), Tail(games))

\* _remove_duplicates(games): [raised |-> TRUE, ...] when ZeroDivisionError
\* leaves the function, else the returned list in unique_games
RemoveDuplicates(games) == DedupeFrom(DedupeStart, games)

\* the longest input of the duplicate filter
MaxGames == 3

SeqsUpTo(S, n) == UNION {[1..k -> S] : k \in 0..n}

(***************************************************************************)
(* State.                                                                  *)
(***************************************************************************)
VARIABLES
    d_input,    \* the list _remove_duplicates is first applied to
    d_games,    \* _remove_duplicates: the argument games of the running call
    d_i,        \* the position of the loop of line 376 in games
    d_st,       \* unique_games, seen_titles, and whether the call raised
    d_pc,       \* "loop", "returned", "raised"
    d_pass,     \* 1: the first application, 2: the application to its result
    d_first     \* the list the first application returned

varsDedupe == <<d_input, d_games, d_i, d_st, d_pc, d_pass, d_first>>

VARIABLES
    site_offers,     \* per scraper: the offers its site has for it to extract
    raising,         \* the scrapers whose call raises in this run
    m_pc,            \* where main (and, inside it, the orchestrator) stands
    submitted,       \* scrapers 1..submitted have been given to the executor
    started,         \* scrapers 1..started have been taken up by a worker
    running,         \* the scrapers whose call is in flight
    completed,       \* the scrapers whose future is set, in the order they finished
    early,           \* history: the futures finished when as_completed began
    finished,        \* as_completed: futures found finished at its start, not yet yielded
    waiter,          \* as_completed: futures finished since, not yet yielded
    yielded,         \* history: the scrapers in the order the loop of line 355 got them
    all_games,       \* all_games of line 338
    o_status,        \* scrape_all_platforms_threaded: how the call stands or ended
    free_games,      \* self.free_games
    json_written,    \* free_games.json has been written by this run
    csv_written,     \* free_games.csv has been written by this run
    io_failed        \* a sink caught an error of open() or of a write

VARIABLES
    a_site,      \* the scraper followed step by step: "epic", "steam" or "none"
    a_response,  \* what the site answers: how the request ends, and the items
    a_pc,        \* "get", "loop", "except", "return", "returned"
    a_i,         \* the position of the loop over the items (lines 51, 96)
    a_games,     \* games (lines 29, 84)
    a_error      \* the except clause has logged an error (lines 76, 115)

varsAdapter == <<a_site, a_response, a_pc, a_i, a_games, a_error>>

varsInput == <<site_offers, raising>>

\* the executor, the futures and the locals of scrape_all_platforms_threaded
varsFrame == <<submitted, started, running, completed, early, finished, waiter,
               yielded, all_games>>

varsPool == <<varsInput, varsFrame, o_status>>

varsSinks == <<free_games, json_written, csv_written, io_failed>>

varsMain == <<m_pc, varsSinks>>

vars == <<varsDedupe, varsAdapter, varsPool, varsMain>>

\* the scrapers of lines 341-349, numbered in the order of the list
NumScrapers == 7

\* ThreadPoolExecutor(max_workers=3)   (line 352)
MaxWorkers == 3

Scrapers == 1..NumScrapers

\* a future that is not set yet
NotDone == [state |-> "pending"]

\* the future of a call that returned games
Returned(games) == [state |-> "result", games |-> games]

\* the future of a call that raised
Raised == [state |-> "exception"]

\* no call of _remove_duplicates is being followed step by step
DedupeIdle ==
    /\ d_input = <<>>
    /\ d_games = <<>>
    /\ d_i = 1
    /\ d_st = DedupeStart
    /\ d_pc = "idle"
    /\ d_pass = 1
    /\ d_first = <<>>

\* no scraper is being followed step by step
AdapterIdle ==
    /\ a_site = "none"
    /\ a_response = [request |-> "ok", items |-> <<>>]
    /\ a_pc = "idle"
    /\ a_i = 1
    /\ a_games = <<>>
    /\ a_error = FALSE

\* all_games = [] (line 338), an executor without work (line 352)
FrameStart ==
    /\ submitted = 0
    /\ started = 0
    /\ running = {}
    /\ completed = <<>>
    /\ early = {}
    /\ finished = {}
    /\ waiter = <<>>
    /\ yielded = <<>>
    /\ all_games = <<>>

\* FreeGamesScraper.__init__ (lines 18-24): self.free_games = []; nothing
\* written yet
SinksStart ==
    /\ free_games = <<>>
    /\ json_written = FALSE
    /\ csv_written = FALSE
    /\ io_failed = FALSE

\* main has not been entered
MainIdle ==
    /\ site_offers = [k \in Scrapers |-> <<>>]
    /\ raising = {}
    /\ m_pc = "idle"
    /\ FrameStart
    /\ o_status = "idle"
    /\ SinksStart

(***************************************************************************)
(* _remove_duplicates applied to an input, and again to its own result.    *)
(***************************************************************************)
InitDedupe ==
    /\ MainIdle
    /\ AdapterIdle
    /\ d_input \in SeqsUpTo(OfferPool, MaxGames)
    /\ d_games = d_input
    /\ d_i = 1
    /\ d_st = DedupeStart
    /\ d_pc = "loop"
    /\ d_pass = 1
    /\ d_first = <<>>

\* one iteration of the loop of lines 376-391
DedupeIterate ==
    /\ d_pc = "loop"
    /\ d_i <= Len(d_games)
    /\ d_st' = LoopBody(d_st, d_games[d_i])
    /\ d_i' = d_i + 1
    /\ d_pc' = IF d_st'.raised THEN "raised" ELSE "loop"
    /\ UNCHANGED <<d_input, d_games, d_pass, d_first, varsPool, varsMain, varsAdapter>>

\* return unique_games   (line 393)
DedupeReturn ==
    /\ d_pc = "loop"
    /\ d_i > Len(d_games)
    /\ d_pc' = "returned"
    /\ UNCHANGED <<d_input, d_games, d_i, d_st, d_pass, d_first, varsPool, varsMain, varsAdapter>>

\* _remove_duplicates called on the list it returned
DedupeAgain ==
    /\ d_pc = "returned"
    /\ d_pass = 1
    /\ d_first' = d_st.unique_games
    /\ d_games' = d_st.unique_games
    /\ d_i' = 1
    /\ d_st' = DedupeStart
    /\ d_pc' = "loop"
    /\ d_pass' = 2
    /\ UNCHANGED <<d_input, varsPool, varsMain, varsAdapter>>

NextDedupe == DedupeIterate \/ DedupeReturn \/ DedupeAgain

SpecDedupe == InitDedupe /\ [][NextDedupe]_vars

(***************************************************************************)
(* Properties of _remove_duplicates.                                       *)
(***************************************************************************)
RECURSIVE IsSubsequence(_, _)
IsSubsequence(a, b) ==
    IF a = <<>> THEN TRUE
    ELSE IF b = <<>> THEN FALSE
    ELSE IF Head(a) = Head(b) THEN IsSubsequence(Tail(a), Tail(b))
    ELSE IsSubsequence(a, Tail(b))

\* the word tokens of a title as the filter reads them
TitleWords(game) == Words(Strip(LowerStr(Title(game))))

C6_DroppedIffOverlapElseAccepted ==
    [][(d_pc = "loop" /\ d_i' = d_i + 1) =>
        LET game == d_games[d_i]
            A == TitleWords(game)
            overlaps == \E seen_title \in d_st.seen_titles :
                LET B == Words(seen_title)
                IN  5 * Cardinality(A \cap B) > 4 * Max(Cardinality(A), Cardinality(B))
        IN  IF overlaps
            THEN d_pc' = "loop" /\ d_st'.unique_games = d_st.unique_games
            ELSE d_pc' = "loop" /\ d_st'.unique_games = Append(d_st.unique_games, game)
      ]_vars

\* C7, as claimed: the returned list is a subsequence of the input, and two
\* offers with the same title tokens and different urls yield exactly the
\* first of them.
C7_SubsequenceFirstKept ==
    (d_pass = 1 /\ d_pc # "loop") =>
        /\ d_pc = "returned" => IsSubsequence(d_st.unique_games, d_input)
        /\ ( /\ Len(d_input) = 2
             /\ TitleWords(d_input[1]) = TitleWords(d_input[2])
             /\ Url(d_input[1]) # Url(d_input[2]) )
           => (d_pc = "returned" /\ d_st.unique_games = <<d_input[1]>>)

(***************************************************************************)
(* scrape_all_platforms_threaded (lines 334-369) inside main (lines        *)
(* 467-499).  A scraper call is taken here by its outcome alone: it        *)
(* returns a list of offers (lines 79, 118, 155, 198, 241, 263, 301), the  *)
(* empty list when there was nothing to extract, or it raises, which is    *)
(* the case the handler of lines 361-362 is written for.                   *)
(***************************************************************************)
\* what each scraper returns when its site has its offers;
\* scrape_microsoft_store (lines 243-263) never appends to games
ScraperOffers(k) ==
    CASE k = 1 -> <<"g1", "g6">>
      [] k = 2 -> <<"g3">>
      [] k = 3 -> <<"g9">>
      [] k = 4 -> <<"g10">>
      [] k = 5 -> <<"g4">>
      [] k = 6 -> <<"g7">>
      [] OTHER -> <<>>

\* the sets of scrapers whose call raises that a run is tried with
RaisingSets == {{}, {1}, {3}, {2, 5}, {4, 6, 7}, Scrapers}

\* the runs tried: every site with its offers and each of RaisingSets, and
\* no site with an offer
Runs ==
    {<<[k \in Scrapers |-> ScraperOffers(k)], r>> : r \in RaisingSets}
        \cup {<<[k \in Scrapers |-> <<>>], {}>>}

\* the most scraper calls that end before as_completed begins
MaxEarly == 2

\* what the future of scraper k holds
Future(k) ==
    IF k \notin {completed[i] : i \in DOMAIN completed} THEN NotDone
    ELSE IF k \in raising THEN Raised
    ELSE Returned(site_offers[k])

\* the mutant of WorkerFree: one worker too many
WorkerFree_OffByOne(inflight) == Cardinality(inflight) <= MaxWorkers

\* the executor has a worker for a new work item: it runs at most max_workers
\* threads, each with one item at a time
WorkerFree(inflight) == Cardinality(inflight) < MaxWorkers

\* the mutant of Extend: a failed future empties what was accumulated
Extend_LosesOnError(games_so_far, future) ==
    IF future.state = "exception" THEN <<>> ELSE games_so_far \o future.games

\* lines 357-362: future.result() returns the games, which all_games.extend
\* appends, or raises, which is logged and leaves all_games as it is
Extend(games_so_far, future) ==
    IF future.state = "exception" THEN games_so_far ELSE games_so_far \o future.games

Last(s) == s[Len(s)]

\* the mutant of NextFutures: the futures of the waiter are taken newest first
NextFutures_NewestFirst(found, queue) ==
    IF found # {} THEN found
    ELSE IF queue # <<>> THEN {Last(queue)} ELSE {}

\* as_completed: the futures the iterator may yield next.  Those found
\* finished when it began come first, out of a set, in no fixed order; then
\* those that finished since, in the order they finished.
NextFutures(found, queue) ==
    IF found # {} THEN found
    ELSE IF queue # <<>> THEN {Head(queue)} ELSE {}

Remove(s, x) == SelectSeq(s, LAMBDA y : y # x)

\* main is entered and calls scrape_all_platforms_threaded (line 476)
Init ==
    /\ DedupeIdle
    /\ AdapterIdle
    /\ \E run \in Runs :
        /\ site_offers = run[1]
        /\ raising = run[2]
    /\ m_pc = "submit"
    /\ FrameStart
    /\ o_status = "running"
    /\ SinksStart

\* executor.submit(scraper), one scraper of the comprehension of line 353:
\* the work item is put on the executor's queue
Submit ==
    /\ m_pc = "submit"
    /\ submitted < NumScrapers
    /\ submitted' = submitted + 1
    /\ UNCHANGED <<varsInput, started, running, completed, early, finished, waiter,
                   yielded, all_games, o_status, varsMain, varsDedupe, varsAdapter>>

\* a worker of the executor takes the oldest work item off the queue and
\* calls the scraper
WorkerStart ==
    /\ started < submitted
    /\ WorkerFree(running)
    /\ started' = started + 1
    /\ running' = running \cup {started + 1}
    /\ UNCHANGED <<varsInput, submitted, completed, early, finished, waiter, yielded,
                   all_games, o_status, varsMain, varsDedupe, varsAdapter>>

\* the mutant of WorkerFinish: the worker thread appends the games of its call
\* to all_games itself
WorkerFinish_AppendsItself ==
    \E k \in running :
        /\ m_pc = "submit" => Len(completed) < MaxEarly
        /\ completed' = Append(completed, k)
        /\ waiter' = IF m_pc = "as_completed" THEN Append(waiter, k) ELSE waiter
        /\ running' = running \ {k}
        /\ all_games' = IF k \in raising THEN all_games ELSE all_games \o site_offers[k]
        /\ UNCHANGED <<varsInput, submitted, started, early, finished, yielded,
                       o_status, varsMain, varsDedupe, varsAdapter>>

\* a scraper call ends: the worker sets the future, and a waiter installed by
\* as_completed is told
WorkerFinish ==
    \E k \in running :
        /\ m_pc = "submit" => Len(completed) < MaxEarly
        /\ completed' = Append(completed, k)
        /\ waiter' = IF m_pc = "as_completed" THEN Append(waiter, k) ELSE waiter
        /\ running' = running \ {k}
        /\ UNCHANGED <<varsInput, submitted, started, early, finished, yielded,
                       all_games, o_status, varsMain, varsDedupe, varsAdapter>>

\* as_completed(future_to_scraper) begins (line 355): it sets aside the futures
\* already finished and installs its waiter on all of them
AsCompletedBegin ==
    /\ m_pc = "submit"
    /\ submitted = NumScrapers
    /\ m_pc' = "as_completed"
    /\ finished' = {completed[i] : i \in DOMAIN completed}
    /\ early' = finished'
    /\ UNCHANGED <<varsInput, submitted, started, running, completed, waiter, yielded,
                   all_games, o_status, varsSinks, varsDedupe, varsAdapter>>

\* one turn of the loop of lines 355-362
ConsumeFuture ==
    /\ m_pc = "as_completed"
    /\ \E k \in NextFutures(finished, waiter) :
        /\ finished' = finished \ {k}
        /\ waiter' = Remove(waiter, k)
        /\ yielded' = Append(yielded, k)
        /\ all_games' = Extend(all_games, Future(k))
    /\ UNCHANGED <<varsInput, submitted, started, running, completed, early, o_status,
                   varsMain, varsDedupe, varsAdapter>>

\* as_completed is exhausted and the with block of line 352 is left
\* (shutdown(wait=True): every work item has run)
LeavePool ==
    /\ m_pc = "as_completed"
    /\ Len(yielded) = NumScrapers
    /\ m_pc' = "remove_duplicates"
    /\ UNCHANGED <<varsPool, varsSinks, varsDedupe, varsAdapter>>

\* the frame of scrape_all_platforms_threaded is left: its locals and its
\* executor are gone
FrameGone ==
    /\ submitted' = 0
    /\ started' = 0
    /\ running' = {}
    /\ completed' = <<>>
    /\ early' = {}
    /\ finished' = {}
    /\ waiter' = <<>>
    /\ yielded' = <<>>
    /\ all_games' = <<>>

\* lines 365-369; a ZeroDivisionError of _remove_duplicates (line 385) leaves
\* scrape_all_platforms_threaded and is caught by main (lines 497-499)
RemoveDuplicatesAndReturn ==
    /\ m_pc = "remove_duplicates"
    /\ LET r == RemoveDuplicates(all_games)
       IN  IF r.raised
           THEN /\ o_status' = "raised"
                /\ m_pc' = "except"
                /\ UNCHANGED free_games
           ELSE /\ o_status' = "returned"
                /\ free_games' = r.unique_games
                /\ m_pc' = "print_summary"
    /\ UNCHANGED <<varsInput, varsFrame, json_written, csv_written, io_failed, varsDedupe, varsAdapter>>

\* main has the list (line 476); scraper.print_summary()   (line 479)
PrintSummary ==
    /\ m_pc = "print_summary"
    /\ m_pc' = "save_to_json"
    /\ FrameGone
    /\ UNCHANGED <<varsInput, o_status, varsSinks, varsDedupe, varsAdapter>>

\* save_to_json (lines 419-431): the file is written, or open() or the dump
\* raises and the error is logged
SaveToJson ==
    /\ m_pc = "save_to_json"
    /\ \E ok \in BOOLEAN :
        /\ json_written' = ok
        /\ io_failed' = (io_failed \/ ~ok)
    /\ m_pc' = "save_to_csv"
    /\ UNCHANGED <<varsPool, free_games, csv_written, varsDedupe, varsAdapter>>

\* save_to_csv (lines 395-417): nothing is written when self.free_games is
\* empty (lines 398-400)
SaveToCsv ==
    /\ m_pc = "save_to_csv"
    /\ IF free_games = <<>>
       THEN UNCHANGED <<csv_written, io_failed>>
       ELSE \E ok \in BOOLEAN :
                /\ csv_written' = ok
                /\ io_failed' = (io_failed \/ ~ok)
    /\ m_pc' = "done"
    /\ UNCHANGED <<varsPool, free_games, json_written, varsDedupe, varsAdapter>>

\* except Exception of main (lines 497-499)
MainExcept ==
    /\ m_pc = "except"
    /\ m_pc' = "done"
    /\ FrameGone
    /\ UNCHANGED <<varsInput, o_status, varsSinks, varsDedupe, varsAdapter>>

\* KeyboardInterrupt in the main thread (lines 495-496).  Inside
\* scrape_all_platforms_threaded it first leaves the with block, which waits
\* for every work item to have run, and then the frame.
Interrupt ==
    /\ m_pc \notin {"done", "interrupted"}
    /\ m_pc' = "interrupted"
    /\ FrameGone
    /\ o_status' = IF o_status = "running" THEN "interrupted" ELSE o_status
    /\ UNCHANGED <<varsInput, varsSinks, varsDedupe, varsAdapter>>

Next ==
    \/ Submit
    \/ WorkerStart
    \/ WorkerFinish
    \/ AsCompletedBegin
    \/ ConsumeFuture
    \/ LeavePool
    \/ RemoveDuplicatesAndReturn
    \/ PrintSummary
    \/ SaveToJson
    \/ SaveToCsv
    \/ MainExcept
    \/ Interrupt

Spec == Init /\ [][Next]_vars

(***************************************************************************)
(* Properties of scrape_all_platforms_threaded and of main.                *)
(***************************************************************************)
Count(s, x) == Cardinality({i \in DOMAIN s : s[i] = x})

RECURSIVE ReturnedCount(_, _)
\* how often offer g occurs in the lists returned by the scrapers of set S
ReturnedCount(S, g) ==
    IF S = {} THEN 0
    ELSE LET k == CHOOSE x \in S : TRUE
         IN  (IF k \in raising THEN 0 ELSE Count(site_offers[k], g))
                 + ReturnedCount(S \ {k}, g)

RECURSIVE ListsInOrder(_)
\* the lists the scrapers of the sequence order returned, one after the other
ListsInOrder(order) ==
    IF order = <<>> THEN <<>>
    ELSE (IF Head(order) \in raising THEN <<>> ELSE site_offers[Head(order)])
             \o ListsInOrder(Tail(order))

\* the loop of lines 355-362 is running or has just ended
Accumulating == m_pc \in {"as_completed", "remove_duplicates"}

\* C1: what has been accumulated holds exactly the offers returned by the
\* scrapers consumed so far whose call did not raise, each as often as
\* returned; before deduplication that is every scraper that did not raise.
C1_ExactlyTheSucceeding ==
    /\ Accumulating =>
         \A g \in OfferPool :
             Count(all_games, g) = ReturnedCount(Range(yielded), g)
    /\ m_pc = "remove_duplicates" =>
         \A g \in OfferPool : Count(all_games, g) = ReturnedCount(Scrapers, g)

\* C1 witness: two calls raised, one of them consumed before calls that
\* returned offers, and the offers of the five others are all there
C1_Witness ==
    /\ m_pc = "remove_duplicates"
    /\ raising = {2, 5}
    /\ yielded[1] = 2
    /\ Len(all_games) = 5

\* C2, as claimed: deduplication starts and the call ends only when all seven
\* futures have been consumed, and the call does not end otherwise than by
\* returning.
C2_WaitsForAllThenReturns ==
    /\ m_pc \in {"remove_duplicates", "print_summary", "except"} =>
         /\ Len(yielded) = 7
         /\ Range(completed) = Scrapers
         /\ running = {}
    /\ o_status # "raised"

\* C3: never more than 3 scraper calls in flight, and the k-th call starts
\* only when k - 3 calls have ended.
C3_AtMostThreeInFlight ==
    /\ Cardinality(running) <= 3
    /\ started <= Len(completed) + 3
    /\ running = (1..started) \ Range(completed)

\* C3 witness: all seven submitted, three in flight, one ended, three waiting
C3_Witness ==
    /\ submitted = 7
    /\ Cardinality(running) = 3
    /\ Len(completed) = 1
    /\ started = 4

\* C4, as claimed: the accumulated sequence is the scrapers' lists in the
\* order in which the scrapers completed.
C4_CompletionOrder ==
    m_pc = "remove_duplicates" => all_games = ListsInOrder(completed)

LateOnes(order) == SelectSeq(order, LAMBDA k : k \notin early)

IsPrefix(a, b) == Len(a) <= Len(b) /\ SubSeq(b, 1, Len(a)) = a

\* C4, amended: the accumulated sequence is the scrapers' lists, each whole
\* and in its own order, in the order as_completed yielded the scrapers: those
\* already finished when as_completed began first, in any order, then the
\* others in the order in which they completed.
C4_YieldOrder ==
    Accumulating =>
        /\ all_games = ListsInOrder(yielded)
        /\ \A i \in DOMAIN yielded :
               (i <= Cardinality(early)) <=> (yielded[i] \in early)
        /\ IsPrefix(LateOnes(yielded), LateOnes(completed))
        /\ m_pc = "remove_duplicates" => LateOnes(yielded) = LateOnes(completed)

\* C4 witness: no call raised; scraper 2 completed before scraper 1, both
\* before as_completed began, and were yielded 1 then 2; the last to be
\* submitted was not the last to complete
C4_Witness ==
    /\ m_pc = "remove_duplicates"
    /\ raising = {}
    /\ site_offers[1] # <<>>
    /\ early = {1, 2}
    /\ completed[1] = 2
    /\ yielded[1] = 1
    /\ completed[7] # 7
    /\ all_games = ListsInOrder(yielded)

\* C9, as claimed, for the runs in which scrape_all_platforms_threaded
\* returned: when main has ended without an interrupt, and no write failed,
\* both files have been written by this run.
C9_BothSinksWritten ==
    (m_pc = "done" /\ o_status = "returned" /\ ~io_failed) =>
        (json_written /\ csv_written)

(***************************************************************************)
(* scrape_epic_games (lines 26-79) and scrape_steam_weekend_deals (lines   *)
(* 81-118), step by step.  The answer of the site is the input: how the    *)
(* request ends, and the items of the list that is looped over.            *)
(***************************************************************************)
DigitChars == <<"0", "1", "2", "3", "4", "5", "6", "7", "8", "9">>

RECURSIVE Decimal(_)
\* str(n) for n >= 0
Decimal(n) ==
    IF n < 10 THEN <<DigitChars[n + 1]>>
    ELSE Decimal(n \div 10) \o <<DigitChars[(n % 10) + 1]>>

\* f"${price / 100:.2f}" for an integer price >= 0   (lines 104, 308)
Dollars(price) ==
    <<"$">> \o Decimal(price \div 100) \o <<".">>
        \o <<DigitChars[((price % 100) \div 10) + 1], DigitChars[(price % 10) + 1]>>

S_Free == <<"F", "r", "e", "e">>

S_Unknown == <<"U", "n", "k", "n", "o", "w", "n">>

\* An Epic catalog element, as far as lines 51-71 and 303-311 read it:
\*   promotions: "absent" (None or no key), "malformed" (not a dict), or
\*     "dict" with the list promotions['promotionalOffers'], each entry
\*     "active" (it has promotional offers of its own), "inactive" (it has
\*     none) or "malformed" (not a dict);
\*   price: "missing" (no 'price' key), "no_total" (no totalPrice in it),
\*     "malformed" (not a dict), "no_original" (totalPrice without
\*     originalPrice), or "number" with the integer originalPrice.
EpicPromotions ==
    {[kind |-> "absent", promotionalOffers |-> <<>>],
     [kind |-> "malformed", promotionalOffers |-> <<>>]}
        \cup {[kind |-> "dict", promotionalOffers |-> entries] :
                 entries \in {<<>>, <<"inactive">>, <<"active">>,
                              <<"active", "malformed">>, <<"inactive", "active">>}}

EpicPrices ==
    {[kind |-> k, originalPrice |-> 0] :
         k \in {"missing", "no_total", "malformed", "no_original"}}
        \cup {[kind |-> "number", originalPrice |-> n] : n \in {0, 5, 2999}}

EpicElements == [promotions : EpicPromotions, price : EpicPrices]

\* A Steam specials item, as far as lines 96-112 read it: a dict, or
\* "malformed" (not a dict); original_price is <<n>> for the number n and <<>>
\* for a JSON null
SteamItems ==
    [kind : {"dict"}, final_price : {0, 500}, original_price : {<<>>, <<0>>, <<1999>>},
     discount_percent : {50, 100}]
        \cup {[kind |-> "malformed", final_price |-> 0, original_price |-> <<>>,
               discount_percent |-> 0]}

\* how the request and the first look at the answer end: "ok"; the get
\* raises (line 43 or 89); raise_for_status raises (line 44 or 90);
\* response.json() raises (line 46 or 92); the keys tested in line 48 or 95
\* are not there; the list looped over cannot be reached (line 49, 51 or 95)
Requests == {"ok", "connection_error", "http_error", "not_json", "no_catalog", "no_list"}

\* the longest list of items in an answer
MaxItems == 2

\* _get_epic_original_price   (lines 303-311)
EpicOriginalPrice(price) ==
    IF price.kind \in {"missing", "no_total", "malformed"} THEN S_Unknown
    ELSE IF price.kind = "no_original" THEN S_Free
    ELSE IF price.originalPrice > 0 THEN Dollars(price.originalPrice) ELSE S_Free

\* game_info of lines 60-70, the fields the model reads
EpicGameInfo(element) ==
    [platform |-> "Epic Games Store",
     original_price |-> EpicOriginalPrice(element.price),
     current_price |-> S_Free]

RECURSIVE EpicOffers(_, _, _)
\* the loop of lines 56-71 over the entries of promotions['promotionalOffers']
EpicOffers(st, entries, element) ==
    IF entries = <<>> THEN st
    ELSE IF Head(entries) = "malformed" THEN [st EXCEPT !.raised = TRUE]
    ELSE IF Head(entries) = "active"
              /\ EpicOriginalPrice(element.price) # S_Free
         THEN EpicOffers([st EXCEPT !.games = Append(@, EpicGameInfo(element))],
                         Tail(entries), element)
    ELSE EpicOffers(st, Tail(entries), element)

\* lines 52-71 for one element, on st = [games, raised]
EpicElement(st, element) ==
    IF element.promotions.kind = "absent" THEN st
    ELSE IF element.promotions.kind = "malformed" THEN [st EXCEPT !.raised = TRUE]
    ELSE EpicOffers(st, element.promotions.promotionalOffers, element)

\* game_info of lines 101-111, the fields the model reads
SteamGameInfo(item) ==
    [platform |-> "Steam",
     original_price |-> Dollars(item.original_price[1]),
     current_price |-> S_Free]

\* lines 97-112 for one item, on st = [games, raised]; the tests of lines 97-99
\* are made from left to right and stop at the first that fails
SteamItem(st, item) ==
    IF item.kind = "malformed" THEN [st EXCEPT !.raised = TRUE]
    ELSE IF item.final_price # 0 THEN st
    ELSE IF item.original_price = <<>> THEN [st EXCEPT !.raised = TRUE]
    ELSE IF item.original_price[1] > 0 /\ item.discount_percent = 100
         THEN [st EXCEPT !.games = Append(@, SteamGameInfo(item))]
    ELSE st

InitAdapter ==
    /\ DedupeIdle
    /\ MainIdle
    /\ \/ a_site = "epic" /\ a_response \in [request : Requests, items : SeqsUpTo(EpicElements, MaxItems)]
       \/ a_site = "steam" /\ a_response \in [request : Requests, items : SeqsUpTo(SteamItems, MaxItems)]
    /\ a_pc = "get"
    /\ a_i = 1
    /\ a_games = <<>>
    /\ a_error = FALSE

\* lines 43-49 and 89-95: the request, the status, the JSON, the keys
AdapterGet ==
    /\ a_pc = "get"
    /\ a_pc' = CASE a_response.request = "ok" -> "loop"
                 [] a_response.request = "no_catalog" -> "return"
                 [] OTHER -> "except"
    /\ UNCHANGED <<a_site, a_response, a_i, a_games, a_error, varsDedupe, varsPool, varsMain>>

\* one turn of the loop of line 51 or of line 96
AdapterItem ==
    /\ a_pc = "loop"
    /\ a_i <= Len(a_response.items)
    /\ LET st == [games |-> a_games, raised |-> FALSE]
           after == IF a_site = "epic"
                    THEN EpicElement(st, a_response.items[a_i])
                    ELSE SteamItem(st, a_response.items[a_i])
       IN  /\ a_games' = after.games
           /\ a_pc' = IF after.raised THEN "except" ELSE "loop"
    /\ a_i' = a_i + 1
    /\ UNCHANGED <<a_site, a_response, a_error, varsDedupe, varsPool, varsMain>>

\* the loop is through
AdapterLoopEnd ==
    /\ a_pc = "loop"
    /\ a_i > Len(a_response.items)
    /\ a_pc' = "return"
    /\ UNCHANGED <<a_site, a_response, a_i, a_games, a_error, varsDedupe, varsPool, varsMain>>

\* except Exception: the error is logged   (lines 75-76, 114-115)
AdapterExcept ==
    /\ a_pc = "except"
    /\ a_error' = TRUE
    /\ a_pc' = "return"
    /\ UNCHANGED <<a_site, a_response, a_i, a_games, varsDedupe, varsPool, varsMain>>

\* return games   (lines 78-79, 117-118)
AdapterReturn ==
    /\ a_pc = "return"
    /\ a_pc' = "returned"
    /\ UNCHANGED <<a_site, a_response, a_i, a_games, a_error, varsDedupe, varsPool, varsMain>>

NextAdapter ==
    \/ AdapterGet
    \/ AdapterItem
    \/ AdapterLoopEnd
    \/ AdapterExcept
    \/ AdapterReturn

SpecAdapter == InitAdapter /\ [][NextAdapter]_vars

(***************************************************************************)
(* Properties of the scrapers.                                             *)
(***************************************************************************)
\* C8, as claimed: a scraper call in which the request, the answer's shape or
\* the parsing of an item failed returns the empty list.
C8_FailureReturnsEmpty ==
    (a_pc = "returned" /\ a_error) => a_games = <<>>

\* "$29.99"
S_2999 == <<"$", "2", "9", ".", "9", "9">>

\* C10, as claimed: the Epic scraper emits an offer for an element only if the
\* element has an active promotional offer entry and its original price is
\* known and nonzero; a well-formed element with an active entry and
\* originalPrice 2999 is emitted with original_price "$29.99".
C10_EpicOnlyKnownNonzeroPrice ==
    [][(a_site = "epic" /\ a_pc = "loop" /\ a_i' = a_i + 1) =>
        LET element == a_response.items[a_i]
            entries == element.promotions.promotionalOffers
            active == /\ element.promotions.kind = "dict"
                      /\ \E i \in DOMAIN entries : entries[i] = "active"
            wellFormed == \A i \in DOMAIN entries : entries[i] # "malformed"
            nonzero == /\ element.price.kind = "number"
                       /\ element.price.originalPrice # 0
            emitted == SubSeq(a_games', Len(a_games) + 1, Len(a_games'))
        IN  /\ emitted # <<>> => (active /\ nonzero)
            /\ (active /\ wellFormed /\ element.price.kind = "number"
                    /\ element.price.originalPrice = 2999)
                 => (emitted # <<>> /\ \A i \in DOMAIN emitted :
                                          emitted[i].original_price = S_2999)
      ]_vars

(***************************************************************************)
(* Who touches all_games, and whether _remove_duplicates always returns.   *)
(***************************************************************************)
\* a step of a worker thread of the executor: a call is started or ends
WorkerStep ==
    /\ m_pc' = m_pc
    /\ started' # started \/ completed' # completed

\* a turn of the loop of lines 355-362, made by the thread that called
\* scrape_all_platforms_threaded: the list of one future, whole, is appended
ConsumerStep ==
    /\ m_pc = "as_completed"
    /\ m_pc' = m_pc
    /\ started' = started
    /\ completed' = completed
    /\ \E k \in Scrapers :
        /\ yielded' = Append(yielded, k)
        /\ all_games' = all_games \o ListsInOrder(<<k>>)

\* C11: all_games is changed by the consuming thread alone, one future at a
\* time: no step of a worker thread changes it, every change of it during the
\* run is the appending of one scraper's whole list by the consumer (or the
\* end of the frame), and so at every moment it is the lists of the scrapers
\* consumed so far, none lost, doubled or mixed with another.
C11_SingleConsumer ==
    /\ [](Accumulating => all_games = ListsInOrder(yielded))
    /\ [][ /\ WorkerStep => (all_games' = all_games /\ yielded' = yielded)
           /\ all_games' # all_games =>
                \/ ConsumerStep
                \/ (m_pc' # m_pc /\ all_games' = <<>>)
         ]_vars

\* C11 witness: three scraper calls are in flight while the consumer has
\* already appended the lists of two others
C11_Witness ==
    /\ m_pc = "as_completed"
    /\ raising = {}
    /\ Cardinality(running) = 3
    /\ Len(yielded) = 2
    /\ Len(all_games) = 3

\* C12, as claimed: on every list of offers with non-empty titles
\* _remove_duplicates returns and does not raise.
C12_DedupeTotal ==
    /\ d_pc # "raised"
    /\ ~d_st.raised

====
